---- MODULE Spec2Model ----
(***************************************************************************)
(* Session / token lifecycle of the backend: loginUser, refreshAccessToken,*)
(* logoutUser (user.controller.js) and the verifyJWT middleware.           *)
(* Every request handler is a process that runs from one await to the      *)
(* next; the user collection is the only shared state.                     *)
(***************************************************************************)
EXTENDS Integers, Sequences, FiniteSets, TLC

\* ------------------------------------------------------------------ bounds
MaxClock == 2          \* the clock runs over 0..MaxClock (seconds, as in iat/exp)
NumReqs == 2           \* request handlers that can be in flight at once
MaxRequests == 3       \* requests the clients send in one run
HistLen == 3           \* requests per user the observer remembers

\* ------------------------------------------------------- configuration (env)
ACCESS_TOKEN_SECRET == "ACCESS_TOKEN_SECRET"
REFRESH_TOKEN_SECRET == "REFRESH_TOKEN_SECRET"
ACCESS_TOKEN_EXPIRY == 1
REFRESH_TOKEN_EXPIRY == 2

\* ------------------------------------------------------------- the users
Users == {"alice", "bob"}
\* a user whose document was deleted from the collection after tokens had
\* been issued to her
FormerUsers == {"carol"}
Reqs == 1..NumReqs
Clock == 0..MaxClock

\* password hashing of the user model: a one-way tag on the plaintext
Hash(pw) == <<"hash", pw>>
\* the stored password hash of every user
passwordOf == [u \in Users |-> Hash("pw_" \o u)]
\* user.isPasswordCorrect(password): compares the hash of the plaintext
isPasswordCorrect(u, pw) == Hash(pw) = passwordOf[u]

\* ---------------------------------------------------------------- tokens
\* A token is its signed payload: the secret that signed it, the subject and
\* the time claims.  NoToken is the absent cookie/body/field.
NoToken == [sig |-> "none", sub |-> "", iat |-> 0, exp |-> 0]
Malformed == [sig |-> "malformed", sub |-> "", iat |-> 0, exp |-> 0]
Forged(u) == [sig |-> "forged", sub |-> u, iat |-> 0, exp |-> MaxClock + 10]

\* jwt.sign({_id}, secret, {expiresIn}) at clock value t
sign(u, secret, ttl, t) == [sig |-> secret, sub |-> u, iat |-> t, exp |-> t + ttl]
generateAccessToken(u, t) == sign(u, ACCESS_TOKEN_SECRET, ACCESS_TOKEN_EXPIRY, t)
generateRefreshToken(u, t) == sign(u, REFRESH_TOKEN_SECRET, REFRESH_TOKEN_EXPIRY, t)

\* jwt.verify(token, secret) at clock value t: "ok" or the error message
jwtVerify(tok, secret, t) ==
    IF tok.sig = "malformed" THEN "jwt malformed"
    ELSE IF tok.sig # secret THEN "invalid signature"
    ELSE IF t >= tok.exp THEN "jwt expired"
    ELSE "ok"

\* ------------------------------------------------------------------ state
VARIABLES
    now,            \* the server clock, read by jwt.sign and jwt.verify
    refreshToken,   \* refreshToken[u]: user.refreshToken of user u (NoToken: unset),
                    \* written at user.controller.js lines 15-16 and 136-144
    req,            \* req[r]: the handler (asyncHandler run) in slot r
    held,           \* token pairs delivered to clients in success responses
                    \* (lines 112-126, 197-207): <<sub, iat>>
    out,            \* the response sent by the last step (NoOut: the step sent none)
    started,        \* requests received so far
    hist            \* hist[u]: the last requests aimed at u that ran one after another

vars == <<now, refreshToken, req, held, out, hist, started>>

\* observer: what a request saw of a request of the same user that finished
\* while it was in flight
NoPeer == [op |-> "none", tok |-> NoToken, at |-> NoToken, rt |-> NoToken,
           status |-> 0, msg |-> "", fresh |-> FALSE, nconc |-> 0]

\* fresh, nconc, peer and threw are the observer's: fresh, the presented token
\* was the persisted one when the request came in; nconc, how many requests of
\* the same user overlapped it (counted up to 2); peer, the last of them to
\* finish; threw, the store call of this request that threw ("": none).
\* cookie and header are req.cookies.accessToken and the Authorization
\* header of a request to verifyJWT, tok the token the handler works on.
Idle == [pc |-> "idle", op |-> "none", ident |-> "", pw |-> "", tok |-> NoToken,
         cookie |-> NoToken, header |-> NoToken,
         uid |-> "", at |-> NoToken, rt |-> NoToken, status |-> 0, msg |-> "",
         fresh |-> FALSE, nconc |-> 0, peer |-> NoPeer, threw |-> ""]

NoOut == [Idle EXCEPT !.pc = "none"]

InFlight(r) == req[r].pc # "idle"
\* a request may come in on slot r: the lowest idle slot takes it
Free(r) ==
    /\ started < MaxRequests
    /\ req[r].pc = "idle"
    /\ \A s \in Reqs : s < r => req[s].pc # "idle"

\* the user a request is aimed at: the login identifier or the token's subject
Target(q) == IF q.op = "login" THEN q.ident ELSE q.tok.sub

Init ==
    /\ now = 0
    /\ refreshToken = [u \in Users |-> NoToken]
    /\ req = [r \in Reqs |-> Idle]
    /\ held = {}
    /\ out = NoOut
    /\ hist = [u \in Users |-> <<>>]
    /\ started = 0

\* as Init, in a deployment where the former users still hold the token
\* pairs of their last login (at clock 0)
InitDeleted ==
    /\ now = 0
    /\ refreshToken = [u \in Users |-> NoToken]
    /\ req = [r \in Reqs |-> Idle]
    /\ held = {<<u, 0>> : u \in FormerUsers}
    /\ out = NoOut
    /\ hist = [u \in Users |-> <<>>]
    /\ started = 0

\* ----------------------------------------------------------- bookkeeping
\* what the clients can send: nothing, garbage, a forgery, or a token they
\* were handed in a success response
HeldAccess == {generateAccessToken(h[1], h[2]) : h \in held}
HeldRefresh == {generateRefreshToken(h[1], h[2]) : h \in held}
Presentable == {NoToken, Malformed} \cup {Forged(u) : u \in Users}
                   \cup HeldAccess \cup HeldRefresh
Identifiers == Users \cup {"ghost", ""}
Passwords == {"pw_" \o u : u \in Users} \cup {"wrongpass", ""}

Min(a, b) == IF a < b THEN a ELSE b

\* the observer's record of a finished request
Event(q) == [op |-> q.op, tok |-> q.tok, at |-> q.at, rt |-> q.rt,
             status |-> q.status, msg |-> q.msg, fresh |-> q.fresh, nconc |-> q.nconc]

Remember(h, e) == IF Len(h) < HistLen THEN Append(h, e) ELSE Append(Tail(h), e)

\* a request enters slot r as q: requests in flight for the same user overlap it
Begin(r, q) ==
    LET others == {s \in Reqs \ {r} : InFlight(s) /\ Target(req[s]) = Target(q)}
    IN  /\ req' = [s \in Reqs |->
                  IF s = r THEN [q EXCEPT !.nconc = Min(2, Cardinality(others))]
                  ELSE IF s \in others THEN [req[s] EXCEPT !.nconc = Min(2, @ + 1)]
                  ELSE req[s]]
        /\ out' = NoOut

\* new ApiError(statusCode, message): the error object the handlers throw
ApiError(statusCode, message) == [code |-> statusCode, message |-> message]

\* asyncHandler's catch: res.status(error.code || 500).json({success: false,
\* message: error.message}); the response sets no cookie and has no token in
\* its body.  An error without a code has code 0 here.
asyncHandler_catch(q, error) ==
    [q EXCEPT !.pc = "done",
              !.status = IF error.code # 0 THEN error.code ELSE 500,
              !.msg = error.message,
              !.at = NoToken, !.rt = NoToken]

\* throw new ApiError(status, msg) in a handler that asyncHandler wraps
Throw(q, status, msg) == asyncHandler_catch(q, ApiError(status, msg))

\* a request is answered at once (it never waited for the store)
Answer(q) ==
    /\ out' = q
    /\ UNCHANGED req

\* request r, which had waited for the store, is answered as q: the slot is
\* free again, the requests of the same user still in flight have seen it
\* finish, and the observer files it
Complete(r, q) ==
    /\ out' = q
    /\ req' = [s \in Reqs |->
                 IF s = r THEN Idle
                 ELSE IF InFlight(s) /\ Target(req[s]) = q.uid
                      THEN [req[s] EXCEPT !.peer = Event(q)]
                 ELSE req[s]]
    /\ hist' = [hist EXCEPT ![q.uid] =
                  IF q.nconc = 0 THEN Remember(@, Event(q)) ELSE <<>>]

\* the error a store operation (findOne, findById, save, findByIdAndUpdate)
\* throws when the store fails: an Error with a message and no code
StoreError == [code |-> 0, message |-> "store unavailable"]

\* generateAccessTokenAndRefreshToken lines 19-21: whatever was thrown inside
\* becomes this ApiError
generate_catch == ApiError(500, "Something went wrong while generating access and refresh token")

\* refreshAccessToken lines 209-211: whatever was thrown inside the try
\* becomes a 401 with the same message
refreshAccessToken_catch(error) == ApiError(401, error.message)

\* verifyJWT lines 50-53: whatever was thrown inside the try becomes a 401
\* with the same message
verifyJWT_catch(error) ==
    ApiError(401, IF error.message # "" THEN error.message ELSE "Invalid access Token")

\* the error that leaves generateAccessTokenAndRefreshToken reaches
\* asyncHandler directly in loginUser (line 101) and through the catch of
\* refreshAccessToken (line 194)
generate_error(q) ==
    IF q.op = "refresh" THEN refreshAccessToken_catch(generate_catch) ELSE generate_catch

\* -------------------------------------------------------------- the clock
Tick ==
    /\ now < MaxClock
    /\ now' = now + 1
    /\ out' = NoOut
    /\ UNCHANGED <<refreshToken, req, held, hist, started>>

\* ------------------------------------------------------------- loginUser
\* loginUser without the password check of lines 95-98
loginUser_noPasswordCheck(r, ident, pw) ==
    /\ Free(r)
    /\ LET q == [Idle EXCEPT !.op = "login", !.ident = ident, !.pw = pw]
       IN  IF ident = "" \/ pw = ""
           THEN Answer(Throw(q, 400, "Username or email and password are required."))
           ELSE IF ident \notin Users
           THEN Answer(Throw(q, 404, "User does not exist."))
           ELSE Begin(r, [q EXCEPT !.pc = "gen_sign", !.uid = ident])
    /\ started' = started + 1
    /\ UNCHANGED <<now, refreshToken, held, hist>>

\* lines 81-101: read the credentials, reject missing ones, User.findOne,
\* 404, isPasswordCorrect, 401, call generateAccessTokenAndRefreshToken.
\* The user's existence and password hash never change, so the two reads are
\* taken with the step that starts the request.
loginUser(r, ident, pw) ==
    /\ Free(r)
    /\ LET q == [Idle EXCEPT !.op = "login", !.ident = ident, !.pw = pw]
       IN  IF ident = "" \/ pw = ""
           THEN Answer(Throw(q, 400, "Username or email and password are required."))
           ELSE IF ident \notin Users
           THEN Answer(Throw(q, 404, "User does not exist."))
           ELSE IF ~isPasswordCorrect(ident, pw)
           THEN Answer(Throw(q, 401, "Invalid user credentials"))
           ELSE Begin(r, [q EXCEPT !.pc = "gen_sign", !.uid = ident])
    /\ started' = started + 1
    /\ UNCHANGED <<now, refreshToken, held, hist>>

\* ------------------------------------ generateAccessTokenAndRefreshToken
\* lines 11-16: findById answers, both tokens are signed at the current
\* clock, user.refreshToken is set and user.save is issued
generate_sign(r) ==
    /\ req[r].pc = "gen_sign"
    /\ req' = [req EXCEPT ![r].pc = "gen_save",
                          ![r].at = generateAccessToken(req[r].uid, now),
                          ![r].rt = generateRefreshToken(req[r].uid, now)]
    /\ out' = NoOut
    /\ UNCHANGED <<now, refreshToken, held, hist, started>>

\* line 16: the save reaches the store: it sets the one modified field
generate_save(r) ==
    /\ req[r].pc = "gen_save"
    /\ refreshToken' = [refreshToken EXCEPT ![req[r].uid] = req[r].rt]
    /\ req' = [req EXCEPT ![r].pc = "respond"]
    /\ out' = NoOut
    /\ UNCHANGED <<now, held, hist, started>>

\* lines 104-126 and 197-207: the success response carries the pair
respondTokens(r) ==
    /\ req[r].pc = "respond"
    /\ req[r].op \in {"login", "refresh"}
    /\ Complete(r, [req[r] EXCEPT !.pc = "done", !.status = 200,
                       !.msg = IF req[r].op = "login" THEN "User logged in Successfully."
                               ELSE "Access Token refreshed"])
    /\ held' = held \cup {<<req[r].uid, req[r].rt.iat>>}
    /\ UNCHANGED <<now, refreshToken, started>>

\* ---------------------------------------------------- refreshAccessToken
\* refreshAccessToken verifying with the access secret
refreshAccessToken_accessSecret(r, tok) ==
    /\ Free(r)
    /\ tok \in Presentable
    /\ LET q == [Idle EXCEPT !.op = "refresh", !.tok = tok,
                     !.fresh = (tok.sub \in Users /\ refreshToken[tok.sub] = tok)]
           v == jwtVerify(tok, ACCESS_TOKEN_SECRET, now)
       IN  IF tok = NoToken
           THEN Answer(Throw(q, 401, "Unauthorized Request. Refresh Token missing."))
           ELSE IF v # "ok"
           THEN Answer(Throw(q, 401, v))
           ELSE Begin(r, [q EXCEPT !.pc = "refresh_findById"])
    /\ started' = started + 1
    /\ UNCHANGED <<now, refreshToken, held, hist>>

\* refreshAccessToken calling jwt.verify before the check for a missing token
refreshAccessToken_verifyFirst(r, tok) ==
    /\ Free(r)
    /\ tok \in Presentable
    /\ LET q == [Idle EXCEPT !.op = "refresh", !.tok = tok,
                     !.fresh = (tok.sub \in Users /\ refreshToken[tok.sub] = tok)]
           v == jwtVerify(tok, REFRESH_TOKEN_SECRET, now)
       IN  IF v # "ok"
           THEN Answer(Throw(q, 401, v))
           ELSE Begin(r, [q EXCEPT !.pc = "refresh_findById"])
    /\ started' = started + 1
    /\ UNCHANGED <<now, refreshToken, held, hist>>

\* lines 168-178: take the token, reject a missing one, jwt.verify it with
\* the refresh secret, issue User.findById
refreshAccessToken(r, tok) ==
    /\ Free(r)
    /\ tok \in Presentable
    /\ LET q == [Idle EXCEPT !.op = "refresh", !.tok = tok,
                     !.fresh = (tok.sub \in Users /\ refreshToken[tok.sub] = tok)]
           v == jwtVerify(tok, REFRESH_TOKEN_SECRET, now)
       IN  IF tok = NoToken
           THEN Answer(Throw(q, 401, "Unauthorized Request. Refresh Token missing."))
           ELSE IF v # "ok"
           THEN Answer(Throw(q, 401, v))
           ELSE Begin(r, [q EXCEPT !.pc = "refresh_findById"])
    /\ started' = started + 1
    /\ UNCHANGED <<now, refreshToken, held, hist>>

\* refreshAccessToken unsetting the persisted token when the presented one
\* does not match it
refreshAccessToken_findById_revokes(r) ==
    /\ req[r].pc = "refresh_findById"
    /\ LET q == req[r]
           u == q.tok.sub
       IN  IF u \notin Users
           THEN /\ out' = Throw(q, 401, "Invalid refresh token")
                /\ req' = [req EXCEPT ![r] = Idle]
                /\ UNCHANGED <<hist, refreshToken>>
           ELSE IF q.tok # refreshToken[u]
           THEN /\ Complete(r, Throw([q EXCEPT !.uid = u], 401,
                                     "Refresh token is expired or used."))
                /\ refreshToken' = [refreshToken EXCEPT ![u] = NoToken]
           ELSE /\ req' = [req EXCEPT ![r].pc = "gen_sign", ![r].uid = u]
                /\ out' = NoOut
                /\ UNCHANGED <<hist, refreshToken>>
    /\ UNCHANGED <<now, held, started>>

\* lines 178-194: findById answers; compare with the persisted value
refreshAccessToken_findById(r) ==
    /\ req[r].pc = "refresh_findById"
    /\ LET q == req[r]
           u == q.tok.sub
       IN  IF u \notin Users
           THEN /\ out' = Throw(q, 401, "Invalid refresh token")
                /\ req' = [req EXCEPT ![r] = Idle]
                /\ UNCHANGED hist
           ELSE IF q.tok # refreshToken[u]
           THEN Complete(r, Throw([q EXCEPT !.uid = u], 401,
                                  "Refresh token is expired or used."))
           ELSE /\ req' = [req EXCEPT ![r].pc = "gen_sign", ![r].uid = u]
                /\ out' = NoOut
                /\ UNCHANGED hist
    /\ UNCHANGED <<now, refreshToken, held, started>>

\* ------------------------------------------------- verifyJWT + logoutUser
\* verifyJWT checking the token against the refresh secret
verifyJWT_refreshSecret(r, cookie, header) ==
    /\ Free(r)
    /\ cookie \in Presentable /\ header \in Presentable
    /\ LET tok == IF cookie # NoToken THEN cookie ELSE header
           q == [Idle EXCEPT !.op = "logout", !.cookie = cookie, !.header = header, !.tok = tok]
           v == jwtVerify(tok, REFRESH_TOKEN_SECRET, now)
       IN  IF tok = NoToken
           THEN Answer(Throw(q, 401, "Unauthorized request"))
           ELSE IF v # "ok"
           THEN Answer(Throw(q, 401, v))
           ELSE IF tok.sub \notin Users
           THEN Answer(Throw(q, 401, "Invalid Access Token"))
           ELSE Begin(r, [q EXCEPT !.pc = "logout_update", !.uid = tok.sub])
    /\ started' = started + 1
    /\ UNCHANGED <<now, refreshToken, held, hist>>

\* verifyJWT turning away the access token of a user with no persisted
\* refresh token
verifyJWT_sessionRequired(r, cookie, header) ==
    /\ Free(r)
    /\ cookie \in Presentable /\ header \in Presentable
    /\ LET tok == IF cookie # NoToken THEN cookie ELSE header
           q == [Idle EXCEPT !.op = "logout", !.cookie = cookie, !.header = header, !.tok = tok]
           v == jwtVerify(tok, ACCESS_TOKEN_SECRET, now)
       IN  IF tok = NoToken
           THEN Answer(Throw(q, 401, "Unauthorized request"))
           ELSE IF v # "ok"
           THEN Answer(Throw(q, 401, v))
           ELSE IF tok.sub \notin Users \/ refreshToken[tok.sub] = NoToken
           THEN Answer(Throw(q, 401, "Invalid Access Token"))
           ELSE Begin(r, [q EXCEPT !.pc = "logout_update", !.uid = tok.sub])
    /\ started' = started + 1
    /\ UNCHANGED <<now, refreshToken, held, hist>>

\* verifyJWT taking the Authorization header before the cookie
verifyJWT_headerFirst(r, cookie, header) ==
    /\ Free(r)
    /\ cookie \in Presentable /\ header \in Presentable
    /\ LET tok == IF header # NoToken THEN header ELSE cookie
           q == [Idle EXCEPT !.op = "logout", !.cookie = cookie, !.header = header, !.tok = tok]
           v == jwtVerify(tok, ACCESS_TOKEN_SECRET, now)
       IN  IF tok = NoToken
           THEN Answer(Throw(q, 401, "Unauthorized request"))
           ELSE IF v # "ok"
           THEN Answer(Throw(q, 401, v))
           ELSE IF tok.sub \notin Users
           THEN Answer(Throw(q, 401, "Invalid Access Token"))
           ELSE Begin(r, [q EXCEPT !.pc = "logout_update", !.uid = tok.sub])
    /\ started' = started + 1
    /\ UNCHANGED <<now, refreshToken, held, hist>>

\* verifyJWT going on without the check of lines 40-42 that the user exists
verifyJWT_noUserCheck(r, cookie, header) ==
    /\ Free(r)
    /\ cookie \in Presentable /\ header \in Presentable
    /\ LET tok == IF cookie # NoToken THEN cookie ELSE header
           q == [Idle EXCEPT !.op = "logout", !.cookie = cookie, !.header = header, !.tok = tok]
           v == jwtVerify(tok, ACCESS_TOKEN_SECRET, now)
       IN  IF tok = NoToken
           THEN Answer(Throw(q, 401, "Unauthorized request"))
           ELSE IF v # "ok"
           THEN Answer(Throw(q, 401, v))
           ELSE Begin(r, [q EXCEPT !.pc = "logout_update", !.uid = tok.sub])
    /\ started' = started + 1
    /\ UNCHANGED <<now, refreshToken, held, hist>>

\* verifyJWT lines 20-49: take the access token from the accessToken cookie
\* or, when there is none, from the Authorization header ("Bearer " taken
\* off), reject a missing one, jwt.verify it with the access secret,
\* User.findById, 401 if there is no such user, attach req.user (uid) and
\* call next(): logoutUser lines 131-144 issues findByIdAndUpdate.  The
\* user's existence never changes, so the lookup is taken with the step that
\* starts the request.
verifyJWT(r, cookie, header) ==
    /\ Free(r)
    /\ cookie \in Presentable /\ header \in Presentable
    /\ LET tok == IF cookie # NoToken THEN cookie ELSE header
           q == [Idle EXCEPT !.op = "logout", !.cookie = cookie, !.header = header, !.tok = tok]
           v == jwtVerify(tok, ACCESS_TOKEN_SECRET, now)
       IN  IF tok = NoToken
           THEN Answer(Throw(q, 401, "Unauthorized request"))
           ELSE IF v # "ok"
           THEN Answer(Throw(q, 401, v))
           ELSE IF tok.sub \notin Users
           THEN Answer(Throw(q, 401, "Invalid Access Token"))
           ELSE Begin(r, [q EXCEPT !.pc = "logout_update", !.uid = tok.sub])
    /\ started' = started + 1
    /\ UNCHANGED <<now, refreshToken, held, hist>>

\* logoutUser without the guard of lines 131-133: req.user._id is read off
\* an undefined req.user and the TypeError reaches asyncHandler
logoutUser_noGuard(r) ==
    /\ Free(r)
    /\ Answer(asyncHandler_catch([Idle EXCEPT !.op = "logoutUser"],
                                 [code |-> 0, message |-> "Cannot read properties of undefined"]))
    /\ started' = started + 1
    /\ UNCHANGED <<now, refreshToken, held, hist>>

\* logoutUser lines 130-133 on a request that carries no req.user (the
\* handler is reached without verifyJWT before it): 401, nothing else
logoutUser(r) ==
    /\ Free(r)
    /\ Answer(Throw([Idle EXCEPT !.op = "logoutUser"], 401, "Unauthorized request"))
    /\ started' = started + 1
    /\ UNCHANGED <<now, refreshToken, held, hist>>

\* logoutUser answering without the findByIdAndUpdate of lines 136-144
logoutUser_update_skipped(r) ==
    /\ req[r].pc = "logout_update"
    /\ req' = [req EXCEPT ![r].pc = "respond"]
    /\ out' = NoOut
    /\ UNCHANGED <<now, refreshToken, held, hist, started>>

\* logoutUser lines 136-144: the $unset reaches the store
logoutUser_update(r) ==
    /\ req[r].pc = "logout_update"
    /\ refreshToken' = [refreshToken EXCEPT ![req[r].uid] = NoToken]
    /\ req' = [req EXCEPT ![r].pc = "respond"]
    /\ out' = NoOut
    /\ UNCHANGED <<now, held, hist, started>>

\* logoutUser lines 152-162: cookies cleared, 200
logoutUser_respond(r) ==
    /\ req[r].pc = "respond"
    /\ req[r].op = "logout"
    /\ Complete(r, [req[r] EXCEPT !.pc = "done", !.status = 200,
                        !.msg = "User logged out successfully."])
    /\ UNCHANGED <<now, refreshToken, held, started>>

\* ------------------------------------------------ the store failing
\* loginUser line 89: User.findOne throws; nothing in loginUser catches it
loginUser_findOne_throws(r, ident, pw) ==
    /\ Free(r)
    /\ ident # "" /\ pw # ""
    /\ Answer(asyncHandler_catch([Idle EXCEPT !.op = "login", !.ident = ident, !.pw = pw,
                                              !.threw = "findOne"],
                                 StoreError))
    /\ started' = started + 1
    /\ UNCHANGED <<now, refreshToken, held, hist>>

\* line 11: User.findById throws inside generateAccessTokenAndRefreshToken
generate_findById_throws(r) ==
    /\ req[r].pc = "gen_sign"
    /\ Complete(r, asyncHandler_catch([req[r] EXCEPT !.threw = "findById"],
                                      generate_error(req[r])))
    /\ UNCHANGED <<now, refreshToken, held, started>>

\* user.save throwing after the document was written
generate_save_throws_written(r) ==
    /\ req[r].pc = "gen_save"
    /\ refreshToken' = [refreshToken EXCEPT ![req[r].uid] = req[r].rt]
    /\ Complete(r, asyncHandler_catch([req[r] EXCEPT !.threw = "save"],
                                      generate_error(req[r])))
    /\ UNCHANGED <<now, held, started>>

\* line 16: user.save throws: the document in the store is not written
generate_save_throws(r) ==
    /\ req[r].pc = "gen_save"
    /\ Complete(r, asyncHandler_catch([req[r] EXCEPT !.threw = "save"],
                                      generate_error(req[r])))
    /\ UNCHANGED <<now, refreshToken, held, started>>

\* refreshAccessToken line 178: User.findById throws
refreshAccessToken_findById_throws(r) ==
    /\ req[r].pc = "refresh_findById"
    /\ out' = asyncHandler_catch([req[r] EXCEPT !.threw = "findById"],
                                 refreshAccessToken_catch(StoreError))
    /\ req' = [req EXCEPT ![r] = Idle]
    /\ UNCHANGED <<now, refreshToken, held, hist, started>>

\* verifyJWT line 37: the token passed jwt.verify and User.findById throws
verifyJWT_findById_throws(r, cookie, header) ==
    /\ Free(r)
    /\ cookie \in Presentable /\ header \in Presentable
    /\ LET tok == IF cookie # NoToken THEN cookie ELSE header
           q == [Idle EXCEPT !.op = "logout", !.cookie = cookie, !.header = header, !.tok = tok, !.threw = "findById"]
       IN  /\ tok # NoToken
           /\ jwtVerify(tok, ACCESS_TOKEN_SECRET, now) = "ok"
           /\ Answer(asyncHandler_catch(q, verifyJWT_catch(StoreError)))
    /\ started' = started + 1
    /\ UNCHANGED <<now, refreshToken, held, hist>>

\* logoutUser lines 136-144: findByIdAndUpdate throws; nothing catches it
logoutUser_update_throws(r) ==
    /\ req[r].pc = "logout_update"
    /\ Complete(r, asyncHandler_catch([req[r] EXCEPT !.threw = "findByIdAndUpdate"],
                                      StoreError))
    /\ UNCHANGED <<now, refreshToken, held, started>>

\* ---------------------------------------------------------- specification
Next ==
    \/ Tick
    \/ \E r \in Reqs, i \in Identifiers, p \in Passwords : loginUser(r, i, p)
    \/ \E r \in Reqs : generate_sign(r)
    \/ \E r \in Reqs : generate_save(r)
    \/ \E r \in Reqs : respondTokens(r)
    \/ \E r \in Reqs, t \in Presentable : refreshAccessToken(r, t)
    \/ \E r \in Reqs : refreshAccessToken_findById(r)
    \/ \E r \in Reqs, c \in Presentable, h \in Presentable : verifyJWT(r, c, h)
    \/ \E r \in Reqs : logoutUser(r)
    \/ \E r \in Reqs : logoutUser_update(r)
    \/ \E r \in Reqs : logoutUser_respond(r)

Spec == Init /\ [][Next]_vars

\* the same handlers where a former user still holds her tokens
SpecDeleted == InitDeleted /\ [][Next]_vars

\* the same handlers over a store whose operations may throw
NextFaulty ==
    \/ Next
    \/ \E r \in Reqs, i \in Identifiers, p \in Passwords : loginUser_findOne_throws(r, i, p)
    \/ \E r \in Reqs : generate_findById_throws(r)
    \/ \E r \in Reqs : generate_save_throws(r)
    \/ \E r \in Reqs : refreshAccessToken_findById_throws(r)
    \/ \E r \in Reqs, c \in Presentable, h \in Presentable : verifyJWT_findById_throws(r, c, h)
    \/ \E r \in Reqs : logoutUser_update_throws(r)

SpecFaulty == InitDeleted /\ [][NextFaulty]_vars


\* ================================================================ claims
Success(e) == e.status = 200
TokenReused(e) == e.status = 401 /\ e.msg = "Refresh token is expired or used."
NotFound(e) == e.status = 404 /\ e.msg = "User does not exist."
InvalidCredentials(e) == e.status = 401 /\ e.msg = "Invalid user credentials"

\* the response just sent answers a request that had waited for the store
Finished(o) == o.pc = "done" /\ o.uid # ""
Last(h) == h[Len(h)]

\* the response just sent ends a race of two refresh requests: the request
\* answered now and one answered while it was in flight both presented the
\* same token, which passed jwt.verify and was the persisted value when each
\* of them came in; a racer that succeeded was given a token other than the
\* one it presented
Racers(o) ==
    /\ Finished(o) /\ o.op = "refresh" /\ o.fresh
    /\ o.peer.op = "refresh" /\ o.peer.fresh /\ o.peer.tok = o.tok
    /\ \A e \in {Event(o), o.peer} : Success(e) => e.rt # e.tok

\* C1: of two concurrent refresh requests presenting the same valid,
\* persisted token exactly one succeeds and the other fails with TokenReused.
C1_ExactlyOneRacerWins ==
    Racers(out) =>
        \/ Success(out) /\ TokenReused(out.peer)
        \/ TokenReused(out) /\ Success(out.peer)

\* C2: when two such racers have both finished (and nothing else of that
\* user ran beside them), every refresh token handed out with a success
\* response is the persisted one, so a following refresh accepts it.
C2_RaceLeavesWinnersToken ==
    (/\ Racers(out) /\ out.nconc = 1 /\ out.peer.nconc = 1
     /\ \A r \in Reqs : InFlight(r) => Target(req[r]) # out.uid)
    => \A e \in {Event(out), out.peer} :
          (Success(e) /\ now < e.rt.exp) => refreshToken[out.uid] = e.rt

\* the last requests of user u ran one after another and the response just
\* sent answers the last of them
Sequential(u, n) ==
    /\ Finished(out) /\ out.uid = u /\ out.nconc = 0
    /\ Len(hist[u]) >= n /\ Last(hist[u]) = Event(out)

\* C3: after refresh(t1) succeeded with t2 and nothing else of that user
\* intervened, refresh(t1) fails with TokenReused and refresh(t2) succeeds.
C3_RotationInvalidates ==
    \A u \in Users :
        LET h == hist[u]
            prev == h[Len(h) - 1]
        IN  (Sequential(u, 2) /\ out.op = "refresh"
                /\ prev.op = "refresh" /\ Success(prev))
            => /\ out.tok = prev.tok => TokenReused(out)
               /\ out.tok = prev.rt => Success(out)

\* C4: after two successful logins of a user in a row, refresh with the
\* first login's token fails with TokenReused and refresh with the second
\* login's token succeeds.
C4_SingleSession ==
    \A u \in Users :
        LET h == hist[u]
            first == h[Len(h) - 2]
            second == h[Len(h) - 1]
        IN  (Sequential(u, 3) /\ out.op = "refresh"
                /\ first.op = "login" /\ Success(first)
                /\ second.op = "login" /\ Success(second))
            => /\ out.tok = first.rt => TokenReused(out)
               /\ out.tok = second.rt => Success(out)

\* every refresh token that can exist for the users
AllRefreshTokens == {generateRefreshToken(u, t) : u \in Users, t \in Clock}
\* refresh would accept t now: lines 176-186 run against the current store
wouldAccept(t) ==
    /\ jwtVerify(t, REFRESH_TOKEN_SECRET, now) = "ok"
    /\ t.sub \in Users
    /\ t = refreshToken[t.sub]

AtMostOneAccepted ==
    \A u \in Users :
        Cardinality({t \in AllRefreshTokens : t.sub = u /\ wouldAccept(t)}) <= 1

\* the step is the save of request r (line 16)
Saves(r) == req[r].pc = "gen_save" /\ req'[r].pc = "respond"

OverwriteInvalidates ==
    \A r \in Reqs :
        (Saves(r) /\ refreshToken[req[r].uid] # NoToken)
        => refreshToken'[req[r].uid] # refreshToken[req[r].uid]

\* C5: at most one refresh token of a user is accepted at any time, and the
\* save of a login or refresh replaces the persisted token by another value,
\* so that the token persisted before is rejected from then on.
C5_OneValidToken == [](AtMostOneAccepted) /\ [][OverwriteInvalidates]_vars

\* C6: a user's persisted refresh token goes from absent to present only by
\* the save of a login; a refresh that was in flight across a logout does
\* not bring it back.
C6_OnlyLoginOpensSession ==
    [][\A u \in Users :
          (refreshToken[u] = NoToken /\ refreshToken'[u] # NoToken)
          => \E r \in Reqs : Saves(r) /\ req[r].op = "login" /\ req[r].uid = u]_vars

\* C7: the value a refresh overwrites is the token that refresh presented.
C7_RefreshReplacesPresented ==
    [][\A r \in Reqs :
          (Saves(r) /\ req[r].op = "refresh")
          => refreshToken[req[r].uid] = req[r].tok]_vars


\* C8: a logout of an authenticated caller that ran beside no other request
\* of that user succeeds and leaves the persisted refresh token absent, the
\* second time in a row as the first.
C8_IdempotentLogout ==
    \A u \in Users :
        (Sequential(u, 1) /\ out.op = "logout")
        => Success(out) /\ refreshToken[u] = NoToken

\* a user logged in, logged out, and the second logout in a row is answered
C8_Witness ==
    \E u \in Users :
        /\ Sequential(u, 3) /\ out.op = "logout" /\ Success(out)
        /\ LET h == hist[u]
           IN  /\ h[Len(h) - 1].op = "logout" /\ Success(h[Len(h) - 1])
               /\ h[Len(h) - 2].op = "login" /\ Success(h[Len(h) - 2])

\* the request that came in with this step (a step that counts one)
Arrived ==
    IF out'.pc = "done" THEN out'
    ELSE req'[CHOOSE r \in Reqs : req[r].pc = "idle" /\ req'[r].pc # "idle"]

NoTokensIssued(q) ==
    /\ q.at = NoToken /\ q.rt = NoToken
    /\ refreshToken' = refreshToken /\ held' = held

\* C9: a login whose identifier matches no user is answered NotFound, a login
\* of an existing user with a wrong password InvalidCredentials; neither
\* issues, persists or returns a token.
C9_CredentialGating ==
    [][started' # started =>
         LET q == Arrived
         IN  (q.op = "login" /\ q.ident # "" /\ q.pw # "")
             => /\ q.ident \notin Users
                    => q.pc = "done" /\ NotFound(q) /\ NoTokensIssued(q)
                /\ (q.ident \in Users /\ ~isPasswordCorrect(q.ident, q.pw))
                    => q.pc = "done" /\ InvalidCredentials(q) /\ NoTokensIssued(q)]_vars

\* a wrong password was answered for a user who holds a session
C9_Witness ==
    /\ out.op = "login" /\ out.pc = "done"
    /\ out.ident \in Users /\ out.pw = "wrongpass" /\ InvalidCredentials(out)
    /\ refreshToken[out.ident] # NoToken

\* the last request of user u was a successful login that returned tok as
\* the access token
JustLoggedIn(u, tok) ==
    /\ u \in Users /\ hist[u] # <<>>
    /\ Last(hist[u]).op = "login" /\ Success(Last(hist[u]))
    /\ Last(hist[u]).at = tok

\* C10: the access token of a login, presented to verifyJWT right after the
\* login and before its expiry, is accepted: the request goes on to the
\* handler with that user's id attached.
C10_LoginTokenVerifies ==
    [][started' # started =>
         LET q == Arrived
         IN  (q.op = "logout" /\ JustLoggedIn(q.tok.sub, q.tok) /\ now < q.tok.exp)
             => q.pc = "logout_update" /\ q.uid = q.tok.sub]_vars

\* a request carrying the access token of the login before it passed verifyJWT
C10_Witness ==
    \E r \in Reqs :
        /\ req[r].pc = "logout_update"
        /\ JustLoggedIn(req[r].uid, req[r].tok)
        /\ req[r].nconc = 0

\* the classes of a failed refresh, as the client sees them
MissingToken(e) == e.status = 401 /\ e.msg = "Unauthorized Request. Refresh Token missing."
InvalidToken(e) ==
    /\ e.status = 401
    /\ e.msg \in {"jwt malformed", "invalid signature", "jwt expired", "Invalid refresh token"}

\* request r leaves the wait for findById of refreshAccessToken with this step
LooksUp(r) == req[r].pc = "refresh_findById" /\ req'[r].pc # "refresh_findById"

\* C11: refresh classifies in this order: no token, Unauthenticated (the
\* "missing" answer) without any verification; a token that fails jwt.verify
\* (malformed, bad signature, expired), InvalidToken; a verified token whose
\* subject is no user, InvalidToken; a verified token of a user that is not
\* the persisted value (also when none is persisted), TokenReused; any other
\* goes on to the issuance.
C11_RefreshClassification ==
    [][/\ started' # started =>
            LET q == Arrived
                v == jwtVerify(q.tok, REFRESH_TOKEN_SECRET, now)
            IN  q.op = "refresh" =>
                  /\ q.tok = NoToken => q.pc = "done" /\ MissingToken(q)
                  /\ (q.tok # NoToken /\ v # "ok") => q.pc = "done" /\ InvalidToken(q)
                  /\ (q.tok # NoToken /\ v = "ok") => q.pc = "refresh_findById"
       /\ \A r \in Reqs :
            LooksUp(r) =>
                LET t == req[r].tok
                IN  /\ t.sub \notin Users => out'.pc = "done" /\ InvalidToken(out')
                    /\ (t.sub \in Users /\ t # refreshToken[t.sub])
                         => out'.pc = "done" /\ TokenReused(out')
                    /\ (t.sub \in Users /\ t = refreshToken[t.sub])
                         => req'[r].pc = "gen_sign"]_vars

\* the unexpired refresh token of a former user was answered "no such user"
C11_Witness ==
    /\ out.pc = "done" /\ out.op = "refresh"
    /\ out.tok.sub \in FormerUsers
    /\ jwtVerify(out.tok, REFRESH_TOKEN_SECRET, now) = "ok"
    /\ out.msg = "Invalid refresh token"

Unauthenticated(e) == e.status = 401
\* the slots whose request is handed to logoutUser by next() with this step
HandedOn == {r \in Reqs : req[r].pc = "idle" /\ req'[r].pc = "logout_update"}

\* C12: verifyJWT answers Unauthenticated, attaches no identity and does not
\* call the next handler when the request has no credential, the credential
\* fails jwt.verify with the access secret, or the verified subject is no
\* user; a request is handed on only when all three passed, with the
\* subject attached as identity, and it is handed on once.
C12_MiddlewareGate ==
    [][started' # started =>
         LET q == Arrived
             v == jwtVerify(q.tok, ACCESS_TOKEN_SECRET, now)
         IN  q.op = "logout" =>
               /\ (q.tok = NoToken \/ v # "ok" \/ q.tok.sub \notin Users)
                    => /\ q.pc = "done" /\ Unauthenticated(q)
                       /\ q.uid = "" /\ HandedOn = {}
               /\ q.pc # "done"
                    => /\ q.tok # NoToken /\ v = "ok" /\ q.tok.sub \in Users
                       /\ q.pc = "logout_update" /\ q.uid = q.tok.sub
                       /\ Cardinality(HandedOn) = 1]_vars

\* the unexpired access token of a former user was turned away
C12_Witness ==
    /\ out.pc = "done" /\ out.op = "logout"
    /\ out.tok.sub \in FormerUsers
    /\ jwtVerify(out.tok, ACCESS_TOKEN_SECRET, now) = "ok"
    /\ Unauthenticated(out) /\ out.msg = "Invalid Access Token" /\ out.uid = ""

\* the response o, sent at clock value t, turned away an access credential
\* that failed jwt.verify
VerificationFailed(o, t) ==
    /\ o.pc = "done" /\ o.op = "logout" /\ o.tok # NoToken
    /\ jwtVerify(o.tok, ACCESS_TOKEN_SECRET, t) # "ok"

\* C13: two requests in a row whose access credential fails jwt.verify (be
\* it malformed, forged or expired) get the same status and the same
\* message.
C13_FailuresIndistinguishable ==
    [][(VerificationFailed(out, now) /\ VerificationFailed(out', now'))
         => out'.status = out.status /\ out'.msg = out.msg]_vars

\* the save of request r (line 16) throws with this step
SaveThrows(r) == req[r].pc = "gen_save" /\ req'[r].pc = "idle"

\* C14: when user.save throws in a login or a refresh, the request is
\* answered with an error, the response carries no access and no refresh
\* token, no token reaches a client, and the persisted refresh token of
\* every user stays what it was.
C14_FailedSaveIssuesNothing ==
    [][\A r \in Reqs :
          SaveThrows(r)
          => /\ out'.pc = "done" /\ out'.op = req[r].op /\ out'.threw = "save"
             /\ out'.status >= 400
             /\ out'.at = NoToken /\ out'.rt = NoToken
             /\ held' = held
             /\ refreshToken' = refreshToken]_vars

\* the save of a refresh threw: the persisted token is still the presented one
C14_Witness ==
    /\ out.pc = "done" /\ out.op = "refresh" /\ out.threw = "save"
    /\ out.status >= 400 /\ out.rt = NoToken
    /\ refreshToken[out.uid] = out.tok

\* C15: logoutUser reached by a request with no identity attached answers
\* Unauthenticated and issues no store update: every user's persisted
\* refresh token is what it was.
C15_LogoutNeedsIdentity ==
    [][started' # started =>
         LET q == Arrived
         IN  q.op = "logoutUser"
             => /\ q.pc = "done" /\ Unauthenticated(q) /\ q.uid = ""
                /\ HandedOn = {}
                /\ refreshToken' = refreshToken]_vars

\* logoutUser turned away a request with no identity while a session exists
C15_Witness ==
    /\ out.pc = "done" /\ out.op = "logoutUser" /\ Unauthenticated(out)
    /\ \E u \in Users : refreshToken[u] # NoToken

Internal(e) == e.status = 500

\* C16: a request in which a store call threw (the findOne of login, the
\* findById or save of the issuance, the findById of refresh or of
\* verifyJWT) is answered with the Internal classification.
C16_StoreFailureIsInternal ==
    (out.pc = "done" /\ out.threw # "") => Internal(out)

\* verifyJWT would accept t now: it verifies and its subject is a user
validAccess(t) ==
    /\ jwtVerify(t, ACCESS_TOKEN_SECRET, now) = "ok"
    /\ t.sub \in Users

\* C17: a request to verifyJWT is judged on its cookie whenever it has one
\* and on its Authorization header only when it has none: with a cookie that
\* verifyJWT would not accept and a header it would, the request is turned
\* away; with no cookie and such a header it is handed on.
C17_CookieBeforeHeader ==
    [][started' # started =>
         LET q == Arrived
         IN  q.op = "logout" =>
               /\ q.tok = IF q.cookie # NoToken THEN q.cookie ELSE q.header
               /\ (q.cookie # NoToken /\ ~validAccess(q.cookie) /\ validAccess(q.header))
                    => q.pc = "done" /\ Unauthenticated(q) /\ HandedOn = {}
               /\ (q.cookie = NoToken /\ validAccess(q.header))
                    => q.pc = "logout_update" /\ q.uid = q.header.sub]_vars

\* a request was turned away on its cookie although its Authorization header
\* carried an access token that verifyJWT accepts
C17_Witness ==
    /\ out.pc = "done" /\ out.op = "logout" /\ Unauthenticated(out)
    /\ out.cookie # NoToken /\ ~validAccess(out.cookie)
    /\ validAccess(out.header)

\* C18: the two secrets being distinct, a token signed as a refresh token is
\* turned away by verifyJWT and a token signed as an access token is turned
\* away by refresh, whatever the state: neither is handed on, neither starts
\* a lookup or an issuance.
C18_KindsNotInterchangeable ==
    [][(started' # started /\ ACCESS_TOKEN_SECRET # REFRESH_TOKEN_SECRET) =>
         LET q == Arrived
         IN  /\ (q.op = "logout" /\ q.tok.sig = REFRESH_TOKEN_SECRET)
                  => q.pc = "done" /\ Unauthenticated(q) /\ HandedOn = {}
             /\ (q.op = "refresh" /\ q.tok.sig = ACCESS_TOKEN_SECRET)
                  => q.pc = "done" /\ InvalidToken(q) /\ req' = req]_vars

\* the persisted, unexpired refresh token of a user was presented to
\* verifyJWT and turned away
C18_Witness ==
    /\ out.pc = "done" /\ out.op = "logout" /\ Unauthenticated(out)
    /\ out.tok.sub \in Users /\ out.tok = refreshToken[out.tok.sub]
    /\ now < out.tok.exp

C20_AccessTokenStateless ==
    [][started' # started =>
         LET q == Arrived
         IN  (q.op = "logout" /\ q.tok.sig = ACCESS_TOKEN_SECRET)
             => (q.pc = "logout_update" /\ q.uid = q.tok.sub)
                    <=> (now < q.tok.exp /\ q.tok.sub \in Users)]_vars

\* after a login and a logout the access token of that login is still
\* accepted, with no refresh token persisted
C20_Witness ==
    \E r \in Reqs :
        LET q == req[r]
            h == hist[q.uid]
        IN  /\ q.pc = "logout_update" /\ q.nconc = 0
            /\ refreshToken[q.uid] = NoToken
            /\ Len(h) >= 2
            /\ h[Len(h)].op = "logout" /\ Success(h[Len(h)])
            /\ h[Len(h) - 1].op = "login" /\ Success(h[Len(h) - 1])
            /\ h[Len(h) - 1].at = q.tok

====
